---- MODULE Spec2Model ----
(***************************************************************************)
(* Black-Scholes option pricing calculator (MyModelBlackSholes.py).        *)
(*                                                                         *)
(* Python floats are modelled as binary fixed-point numbers: the integer n *)
(* stands for the real number n / ONE.  The library functions math.log,    *)
(* math.sqrt, math.exp and scipy.stats.norm.cdf are computed on that       *)
(* representation, with the exceptions CPython raises for arguments        *)
(* outside their domain.  Only finite floats of magnitude below 256 are    *)
(* represented: there is no infinity, no NaN and no OverflowError.         *)
(***************************************************************************)
EXTENDS Integers, Sequences, FiniteSets, TLC

VARIABLES
  pc,                 \* position of the run of the script
  stdout,             \* what has been printed, in order
  inputs,             \* the floats get_user_inputs has read so far
  call_option_price,  \* what step 2 returned (Return(v)), None before
  put_option_price,
  stdin,              \* the lines read from standard input so far
  error,              \* the uncaught exception that ended the run, or None
  exit_code,          \* the exit status of the process, None while it runs
  observed,           \* library use: an earlier call and its outcome
  last                \* library use: the latest call and its outcome

cli_vars == <<pc, stdout, stdin, inputs, call_option_price, put_option_price, error, exit_code>>

lib_vars == <<observed, last>>

vars == <<cli_vars, lib_vars>>

\* ------------------------------------------------------------------ floats
\* One unit of the fixed-point representation of a float: 2^23.
ONE == 8388608

\* Limb base of the long multiplication: 2^11.
LIMB == 2048

Abs(x) == IF x < 0 THEN -x ELSE x

Sign(x) == IF x < 0 THEN -1 ELSE 1

\* a * b for a, b >= 0 as <<h, l>> with a * b = h * ONE + l and 0 <= l < ONE,
\* every intermediate product kept below 2^31.
MulWide(a, b) ==
  LET a0 == a % LIMB
      a1 == (a \div LIMB) % LIMB
      a2 == a \div (LIMB * LIMB)
      b0 == b % LIMB
      b1 == (b \div LIMB) % LIMB
      b2 == b \div (LIMB * LIMB)
      c0 == a0 * b0
      c1 == a0 * b1 + a1 * b0
      c2 == a0 * b2 + a1 * b1 + a2 * b0
      c3 == a1 * b2 + a2 * b1
      c4 == a2 * b2
      t1 == c1 + (c0 \div LIMB)
      t2 == c2 + (t1 \div LIMB)
  IN  << c4 * (LIMB * 1024) + c3 * 1024 + (t2 \div 2),
         (t2 % 2) * (LIMB * LIMB) + (t1 % LIMB) * LIMB + (c0 % LIMB) >>

\* |a| * |b| / ONE rounded to nearest.
MulAbs(a, b) ==
  LET w == MulWide(a, b)
  IN  w[1] + (IF 2 * w[2] >= ONE THEN 1 ELSE 0)

\* float * float
Mul(a, b) == Sign(a) * Sign(b) * MulAbs(Abs(a), Abs(b))

\* The binary digits of r / b after the point, r < b, most significant
\* first, n of them, accumulated into acc.
RECURSIVE FracBits(_, _, _, _)
FracBits(r, b, n, acc) ==
  IF n = 0 THEN acc
  ELSE IF r >= b - r THEN FracBits(r - (b - r), b, n - 1, 2 * acc + 1)
       ELSE FracBits(r + r, b, n - 1, 2 * acc)

\* |a| / |b| for a >= 0, b > 0.
DivAbs(a, b) == (a \div b) * ONE + FracBits(a % b, b, 23, 0)

\* float / float, b # 0 (the caller raises ZeroDivisionError for b = 0).
Div(a, b) == Sign(a) * Sign(b) * DivAbs(Abs(a), Abs(b))

\* Largest y in lo..hi with y * y <= x (bisection).
RECURSIVE SqrtSearch(_, _, _)
SqrtSearch(x, lo, hi) ==
  IF lo >= hi THEN lo
  ELSE LET mid == lo + (hi - lo + 1) \div 2
           w == MulWide(mid, mid)
       IN  IF w[1] < x \/ (w[1] = x /\ w[2] = 0) THEN SqrtSearch(x, mid, hi)
           ELSE SqrtSearch(x, lo, mid - 1)

\* math.sqrt(x) for x >= 0 (the caller raises ValueError for x < 0).
Sqrt(x) == SqrtSearch(x, 0, 16 * ONE)

\* ln 2
LN2 == 5814540

\* Sum of z^(2k+1) / (2k+1) from the term t = z^(2k+1) on, z2 = z * z.
RECURSIVE AtanhSeries(_, _, _, _)
AtanhSeries(t, z2, k, acc) ==
  IF t = 0 \/ k > 40 THEN acc
  ELSE AtanhSeries(Mul(t, z2), z2, k + 1, acc + t \div (2 * k + 1))

\* ln(m) for m in [ONE, 2 * ONE): 2 * atanh((m - 1) / (m + 1)).
LogMantissa(m) ==
  LET z == Div(m - ONE, m + ONE)
  IN  2 * AtanhSeries(z, Mul(z, z), 0, 0)

\* Scale x > 0 into [ONE, 2 * ONE), counting the halvings in e.
RECURSIVE LogReduce(_, _)
LogReduce(x, e) ==
  IF x >= 2 * ONE THEN LogReduce(x \div 2, e + 1)
  ELSE IF x < ONE THEN LogReduce(x * 2, e - 1)
  ELSE e * LN2 + LogMantissa(x)

\* math.log(x) for x > 0 (the caller raises ValueError for x <= 0).
Log(x) == LogReduce(x, 0)

\* Sum of r^k / k! from the term t = r^k / k! on.
RECURSIVE ExpSeries(_, _, _, _)
ExpSeries(t, r, k, acc) ==
  IF t = 0 \/ k > 40 THEN acc
  ELSE ExpSeries(Mul(t, r) \div (k + 1), r, k + 1, acc + t)

\* e^x * 2^n for the reduced argument x, doubling or halving n times.
RECURSIVE Ldexp(_, _)
Ldexp(y, n) ==
  IF n = 0 THEN y
  ELSE IF n > 0 THEN Ldexp(y * 2, n - 1)
  ELSE Ldexp(y \div 2, n + 1)

\* math.exp(x): x = n * ln 2 + r with 0 <= r < ln 2.
Exp(x) == Ldexp(ExpSeries(ONE, x % LN2, 0, 0), x \div LN2)

\* sqrt(1/2) and 2 / sqrt(pi)
SQRTH == 5931642

TWO_OVER_SQRT_PI == 9465531

\* Sum of 2^n z^(2n+1) / (1 * 3 * ... * (2n+1)) from the term t on.
RECURSIVE ErfSeries(_, _, _, _)
ErfSeries(t, z2, n, acc) ==
  IF t = 0 \/ n > 80 THEN acc
  ELSE ErfSeries((2 * Mul(t, z2)) \div (2 * n + 3), z2, n + 1, acc + t)

\* z + (1/2) / (z + 1 / (z + (3/2) / (z + ...))), evaluated from level k up.
RECURSIVE ErfcFraction(_, _, _)
ErfcFraction(z, k, f) ==
  IF k = 0 THEN f
  ELSE ErfcFraction(z, k - 1, z + Div((k * ONE) \div 2, f))

\* erfc(z) for z >= 0: the series for erf below z = 2, the continued
\* fraction from there on, 0 beyond z = 6.
Erfc(z) ==
  LET z2 == Mul(z, z)
  IN  IF z >= 6 * ONE THEN 0
      ELSE IF z < 2 * ONE
        THEN ONE - Mul(Mul(TWO_OVER_SQRT_PI, Exp(-z2)), ErfSeries(z, z2, 0, 0))
        ELSE Div(Mul(TWO_OVER_SQRT_PI, Exp(-z2)), 2 * ErfcFraction(z, 60, z))

\* scipy.stats.norm.cdf(a): Phi(a) = 0.5 * erfc(-a / sqrt 2), computed on
\* |a| and reflected for a > 0, as ndtr does.
Phi(a) ==
  LET z == MulAbs(Abs(a), SQRTH)
      y == Erfc(z) \div 2
  IN  IF a > 0 THEN ONE - y ELSE y

\* ----------------------------------------------------------- outcomes
\* No value / no exception.
None == [kind |-> "none"]

\* A call either returns a float or raises an exception.
Return(v) == [kind |-> "return", value |-> v]

Raise(exc, msg) == [kind |-> "raise", exc |-> exc, msg |-> msg]

\* a / b of two floats raises ZeroDivisionError for b = 0.
ZeroDivisionError == Raise("ZeroDivisionError", "float division by zero")

\* math.log(x) for x <= 0 and math.sqrt(x) for x < 0 raise ValueError.
MathDomainError == Raise("ValueError", "math domain error")

\* a / b of two floats.
FloatDiv(a, b) == IF b = 0 THEN ZeroDivisionError ELSE Return(Div(a, b))

math_log(x) == IF x <= 0 THEN MathDomainError ELSE Return(Log(x))

math_sqrt(x) == IF x < 0 THEN MathDomainError ELSE Return(Sqrt(x))

\* 0.5
HALF == ONE \div 2

\* ------------------------------------------------------ pricing functions
\* d1 of calculate_call_option_price, in Python's order of evaluation:
\* math.log(S / K), then math.sqrt(T), then the division.
call_d1(stock_price, strike_price, time_to_maturity, risk_free_rate, volatility) ==
  LET ratio == FloatDiv(stock_price, strike_price)
      lg == IF ratio.kind = "raise" THEN ratio ELSE math_log(ratio.value)
      root == IF lg.kind = "raise" THEN lg ELSE math_sqrt(time_to_maturity)
  IN  IF root.kind = "raise" THEN root
      ELSE FloatDiv(lg.value + Mul(risk_free_rate + Mul(HALF, Mul(volatility, volatility)),
                                   time_to_maturity),
                    Mul(volatility, root.value))

\* d2 and the call price, given d1.
call_price(stock_price, strike_price, time_to_maturity, risk_free_rate, volatility, d1) ==
  LET d2 == d1 - Mul(volatility, Sqrt(time_to_maturity))
  IN  Mul(stock_price, Phi(d1))
        - Mul(Mul(strike_price, Exp(Mul(-risk_free_rate, time_to_maturity))), Phi(d2))

\* calculate_call_option_price with a module-level cache of the latest
\* result that is never invalidated.
calculate_call_option_price_cached(stock_price, strike_price, time_to_maturity, risk_free_rate, volatility) ==
  LET d1 == call_d1(stock_price, strike_price, time_to_maturity, risk_free_rate,
                    volatility)
  IN  IF last # None /\ last.fn = "call" /\ last.outcome.kind = "return"
        THEN last.outcome
      ELSE IF d1.kind = "raise" THEN d1
      ELSE Return(call_price(stock_price, strike_price, time_to_maturity,
                             risk_free_rate, volatility, d1.value))

calculate_call_option_price(stock_price, strike_price, time_to_maturity, risk_free_rate, volatility) ==
  LET d1 == call_d1(stock_price, strike_price, time_to_maturity, risk_free_rate,
                    volatility)
  IN  IF d1.kind = "raise" THEN d1
      ELSE Return(call_price(stock_price, strike_price, time_to_maturity,
                             risk_free_rate, volatility, d1.value))

\* put_d1 with the degenerate denominator guarded: d1 = 0 when
\* volatility * sqrt(T) is 0, instead of the division raising.
put_d1_guarded(stock_price, strike_price, time_to_maturity, risk_free_rate, volatility) ==
  LET ratio == FloatDiv(stock_price, strike_price)
      lg == IF ratio.kind = "raise" THEN ratio ELSE math_log(ratio.value)
      root == IF lg.kind = "raise" THEN lg ELSE math_sqrt(time_to_maturity)
  IN  IF root.kind = "raise" THEN root
      ELSE IF Mul(volatility, root.value) = 0 THEN Return(0)
      ELSE FloatDiv(lg.value + Mul(risk_free_rate + Mul(HALF, Mul(volatility, volatility)),
                                   time_to_maturity),
                    Mul(volatility, root.value))

\* put_d1 with the square root of the maturity forgotten in the denominator.
put_d1_no_sqrt(stock_price, strike_price, time_to_maturity, risk_free_rate, volatility) ==
  LET ratio == FloatDiv(stock_price, strike_price)
      lg == IF ratio.kind = "raise" THEN ratio ELSE math_log(ratio.value)
  IN  IF lg.kind = "raise" THEN lg
      ELSE FloatDiv(lg.value + Mul(risk_free_rate + Mul(HALF, Mul(volatility, volatility)),
                                   time_to_maturity),
                    Mul(volatility, time_to_maturity))

\* d1 of calculate_put_option_price: the same expression, written again.
put_d1(stock_price, strike_price, time_to_maturity, risk_free_rate, volatility) ==
  LET ratio == FloatDiv(stock_price, strike_price)
      lg == IF ratio.kind = "raise" THEN ratio ELSE math_log(ratio.value)
      root == IF lg.kind = "raise" THEN lg ELSE math_sqrt(time_to_maturity)
  IN  IF root.kind = "raise" THEN root
      ELSE FloatDiv(lg.value + Mul(risk_free_rate + Mul(HALF, Mul(volatility, volatility)),
                                   time_to_maturity),
                    Mul(volatility, root.value))

\* put_price with the discount factor exp(-r T) forgotten.
put_price_undiscounted(stock_price, strike_price, time_to_maturity, risk_free_rate, volatility, d1) ==
  LET d2 == d1 - Mul(volatility, Sqrt(time_to_maturity))
  IN  Mul(strike_price, Phi(-d2)) - Mul(stock_price, Phi(-d1))

\* d2 and the put price, given d1.
put_price(stock_price, strike_price, time_to_maturity, risk_free_rate, volatility, d1) ==
  LET d2 == d1 - Mul(volatility, Sqrt(time_to_maturity))
  IN  Mul(Mul(strike_price, Exp(Mul(-risk_free_rate, time_to_maturity))), Phi(-d2))
        - Mul(stock_price, Phi(-d1))

calculate_put_option_price(stock_price, strike_price, time_to_maturity, risk_free_rate, volatility) ==
  LET d1 == put_d1(stock_price, strike_price, time_to_maturity, risk_free_rate,
                   volatility)
  IN  IF d1.kind = "raise" THEN d1
      ELSE Return(put_price(stock_price, strike_price, time_to_maturity,
                            risk_free_rate, volatility, d1.value))

\* ------------------------------------------------------------- the CLI
Digits == <<"0", "1", "2", "3", "4", "5", "6", "7", "8", "9">>

IsDigit(c) == \E i \in 1..10 : Digits[i] = c

DigitValue(c) == (CHOOSE i \in 1..10 : Digits[i] = c) - 1

\* The characters of a line joined into one string.
RECURSIVE Join(_)
Join(cs) == IF cs = <<>> THEN "" ELSE Head(cs) \o Join(Tail(cs))

\* A line without its leading and trailing blanks.
RECURSIVE Strip(_)
Strip(cs) ==
  IF cs = <<>> THEN cs
  ELSE IF Head(cs) = " " THEN Strip(Tail(cs))
  ELSE IF cs[Len(cs)] = " " THEN Strip(SubSeq(cs, 1, Len(cs) - 1))
  ELSE cs

\* The number a string of decimal digits denotes.
RECURSIVE Decimal(_, _)
Decimal(cs, acc) ==
  IF cs = <<>> THEN acc ELSE Decimal(Tail(cs), 10 * acc + DigitValue(Head(cs)))

RECURSIVE Pow10(_)
Pow10(n) == IF n = 0 THEN 1 ELSE 10 * Pow10(n - 1)

\* float(line) for lines of the form [blanks][+|-]digits[.digits][blanks]
\* and for lines that are no number at all: the float, or ValueError.
float(cs) ==
  LET t == Strip(cs)
      signed == t # <<>> /\ Head(t) \in {"+", "-"}
      body == IF signed THEN Tail(t) ELSE t
      dots == {i \in 1..Len(body) : body[i] = "."}
      dot == IF dots = {} THEN Len(body) + 1 ELSE CHOOSE i \in dots : TRUE
      ip == SubSeq(body, 1, dot - 1)
      fp == SubSeq(body, dot + 1, Len(body))
      wellformed == /\ Cardinality(dots) <= 1
                    /\ Len(ip) + Len(fp) > 0
                    /\ \A i \in 1..Len(body) : i # dot => IsDigit(body[i])
      magnitude == Decimal(ip, 0) * ONE
                     + DivAbs(Decimal(fp, 0) * ONE, Pow10(Len(fp)) * ONE)
  IN  IF wellformed
        THEN Return(IF signed /\ Head(t) = "-" THEN -magnitude ELSE magnitude)
        ELSE Raise("ValueError",
                   "could not convert string to float: '" \o Join(cs) \o "'")

\* input() at the end of standard input.
EOFError == Raise("EOFError", "EOF when reading a line")

Welcome == "Welcome to the Black-Scholes Option Pricing Calculator!\n"

\* The prompts of get_user_inputs, in the order of its input() calls.
Prompts ==
  << "Enter the current stock price (S0): ",
     "Enter the strike price (K): ",
     "Enter the time to maturity in years (T): ",
     "Enter the risk-free interest rate (r) in decimal (e.g., 0.05 for 5%): ",
     "Enter the volatility (σ) in decimal (e.g., 0.2 for 20%): " >>

TwoDigits(n) == IF n < 10 THEN "0" \o ToString(n) ELSE ToString(n)

\* f"{v:.2f}": v rounded to hundredths, ties to even.
Format2f(v) ==
  LET a == Abs(v)
      units == a \div ONE
      scaled == (a % ONE) * 100
      q == scaled \div ONE
      rest == scaled % ONE
      up == 2 * rest > ONE \/ (2 * rest = ONE /\ q % 2 = 1)
      cents == IF up THEN q + 1 ELSE q
      whole == IF cents = 100 THEN units + 1 ELSE units
      frac == IF cents = 100 THEN 0 ELSE cents
      sign == IF v < 0 THEN "-" ELSE ""
  IN  sign \o ToString(whole) \o "." \o TwoDigits(frac)

Separator == "==============================="

CallLine(price) == "European Call Option Price: $" \o Format2f(price)

PutLine(price) == "European Put Option Price: $" \o Format2f(price)

\* What the user may type at each prompt (one line per prompt).
Lines ==
  << { <<"1", "0", "0">>, <<"9", "0">>, <<" ", "1", "1", "0">>,
       <<"-", "1", "0", "0">>, <<"0">>, <<"a", "b", "c">> },
     { <<"1", "0", "0">>, <<"9", "5", ".", "5">>, <<"-", "1", "0", "0">>,
       <<"0">>, <<>> },
     { <<"1">>, <<"0", ".", "2", "5">>, <<"-", "1">>, <<"0">>, <<"1", "y">> },
     { <<"0", ".", "0", "5">>, <<"-", ".", "0", "5">>, <<"0">>, <<"5", "%">> },
     { <<"0", ".", "2">>, <<".", "4">>, <<"-", "0", ".", "2">>, <<"0", ".", "0">>,
       <<"0", ",", "2">> } >>

CliInit ==
  /\ pc = "start"
  /\ stdout = <<>>
  /\ stdin = <<>>
  /\ inputs = <<>>
  /\ call_option_price = None
  /\ put_option_price = None
  /\ error = None
  /\ exit_code = None

LibInit == observed = None /\ last = None

Init == CliInit /\ LibInit

\* An uncaught exception: traceback, exit status 1.
Uncaught(exc) ==
  /\ error' = exc
  /\ exit_code' = 1
  /\ pc' = "exited"

\* get_user_inputs: the welcome line.
PrintWelcome ==
  /\ pc = "start"
  /\ stdout' = Append(stdout, Welcome)
  /\ pc' = "prompt"
  /\ UNCHANGED <<stdin, inputs, call_option_price, put_option_price, error, exit_code, lib_vars>>

\* input(prompt) writes the prompt ...
Prompt ==
  /\ pc = "prompt"
  /\ stdout' = Append(stdout, Prompts[Len(inputs) + 1])
  /\ pc' = "read"
  /\ UNCHANGED <<stdin, inputs, call_option_price, put_option_price, error, exit_code, lib_vars>>

\* ReadFloat that asks again when the line is no number.
ReadFloatRetry(line) ==
  /\ pc = "read"
  /\ line \in Lines[Len(inputs) + 1]
  /\ stdin' = Append(stdin, line)
  /\ LET v == float(line)
     IN  IF v.kind = "raise"
           THEN pc' = "prompt" /\ UNCHANGED inputs
           ELSE /\ inputs' = Append(inputs, v.value)
                /\ pc' = IF Len(inputs) + 1 = Len(Prompts) THEN "call" ELSE "prompt"
  /\ UNCHANGED <<stdout, call_option_price, put_option_price, error, exit_code, lib_vars>>

\* ReadFloat that takes 1.0 for a line that is no number.
ReadFloatDefault(line) ==
  /\ pc = "read"
  /\ line \in Lines[Len(inputs) + 1]
  /\ stdin' = Append(stdin, line)
  /\ LET v == float(line)
     IN  /\ inputs' = Append(inputs, IF v.kind = "raise" THEN ONE ELSE v.value)
         /\ pc' = IF Len(inputs) + 1 = Len(Prompts) THEN "call" ELSE "prompt"
  /\ UNCHANGED <<stdout, call_option_price, put_option_price, error, exit_code, lib_vars>>

\* ... and reads a line, which float() converts.
ReadFloat(line) ==
  /\ pc = "read"
  /\ line \in Lines[Len(inputs) + 1]
  /\ stdin' = Append(stdin, line)
  /\ LET v == float(line)
     IN  IF v.kind = "raise"
           THEN Uncaught(v) /\ UNCHANGED inputs
           ELSE /\ inputs' = Append(inputs, v.value)
                /\ pc' = IF Len(inputs) + 1 = Len(Prompts) THEN "call" ELSE "prompt"
                /\ UNCHANGED <<error, exit_code>>
  /\ UNCHANGED <<stdout, call_option_price, put_option_price, lib_vars>>

\* ... or finds standard input at its end.
ReadEOF ==
  /\ pc = "read"
  /\ Uncaught(EOFError)
  /\ UNCHANGED <<stdout, stdin, inputs, call_option_price, put_option_price, lib_vars>>

\* ComputeCall that prints the call price as soon as it is computed.
ComputeCallAndPrint ==
  /\ pc = "call"
  /\ LET c == calculate_call_option_price(inputs[1], inputs[2], inputs[3],
                                          inputs[4], inputs[5])
     IN  IF c.kind = "raise"
           THEN Uncaught(c) /\ UNCHANGED <<call_option_price, stdout>>
           ELSE /\ call_option_price' = c
                /\ stdout' = Append(stdout, CallLine(c.value))
                /\ pc' = "put"
                /\ UNCHANGED <<error, exit_code>>
  /\ UNCHANGED <<stdin, inputs, put_option_price, lib_vars>>

\* __main__, step 2: the call price ...
ComputeCall ==
  /\ pc = "call"
  /\ LET c == calculate_call_option_price(inputs[1], inputs[2], inputs[3],
                                          inputs[4], inputs[5])
     IN  IF c.kind = "raise"
           THEN Uncaught(c) /\ UNCHANGED call_option_price
           ELSE /\ call_option_price' = c
                /\ pc' = "put"
                /\ UNCHANGED <<error, exit_code>>
  /\ UNCHANGED <<stdout, stdin, inputs, put_option_price, lib_vars>>

\* ... then the put price.
ComputePut ==
  /\ pc = "put"
  /\ LET p == calculate_put_option_price(inputs[1], inputs[2], inputs[3],
                                         inputs[4], inputs[5])
     IN  IF p.kind = "raise"
           THEN Uncaught(p) /\ UNCHANGED put_option_price
           ELSE /\ put_option_price' = p
                /\ pc' = "display"
                /\ UNCHANGED <<error, exit_code>>
  /\ UNCHANGED <<stdout, stdin, inputs, call_option_price, lib_vars>>

\* __main__, step 3, and the end of the script.
display_results ==
  /\ pc = "display"
  /\ stdout' = stdout \o << "\n" \o Separator,
                            CallLine(call_option_price.value),
                            PutLine(put_option_price.value),
                            Separator \o "\n" >>
  /\ exit_code' = 0
  /\ pc' = "exited"
  /\ UNCHANGED <<stdin, inputs, call_option_price, put_option_price, error, lib_vars>>

\* Every line the user may type, at any prompt.
AllLines == UNION {Lines[i] : i \in 1..Len(Lines)}

Next ==
  \/ PrintWelcome
  \/ Prompt
  \/ \E line \in AllLines : ReadFloat(line)
  \/ ReadEOF
  \/ ComputeCall
  \/ ComputePut
  \/ display_results

Spec == Init /\ [][Next]_vars

\* ------------------------------------------------- use as a library
\* Arguments a caller may pass: each sign of S, K, T and sigma.
StockPrices == {-100 * ONE, 0, 100 * ONE}

StrikePrices == {-110 * ONE, 0, 110 * ONE}

Maturities == {-ONE, 0, ONE \div 4}

Rates == {ONE \div 20}

Volatilities == {-(ONE \div 5), 0, ONE \div 5}

Args == StockPrices \X StrikePrices \X Maturities \X Rates \X Volatilities

\* The outcome of each function on each argument tuple (@@ makes TLC
\* tabulate the function instead of evaluating it at every use).
call_outcome == [a \in Args |->
  calculate_call_option_price(a[1], a[2], a[3], a[4], a[5])] @@ <<>>

put_outcome == [a \in Args |->
  calculate_put_option_price(a[1], a[2], a[3], a[4], a[5])] @@ <<>>

\* A call of one of the two functions; the caller keeps the record of an
\* earlier call or replaces it by the previous one.
CallPrice(a, keep) ==
  /\ a \in Args
  /\ last' = [fn |-> "call", args |-> a,
              outcome |-> call_outcome[a]]
  /\ observed' = IF keep THEN observed ELSE last
  /\ UNCHANGED cli_vars

PutPrice(a, keep) ==
  /\ a \in Args
  /\ last' = [fn |-> "put", args |-> a,
              outcome |-> put_outcome[a]]
  /\ observed' = IF keep THEN observed ELSE last
  /\ UNCHANGED cli_vars

NextPricing ==
  \/ \E a \in Args, keep \in BOOLEAN : CallPrice(a, keep)
  \/ \E a \in Args, keep \in BOOLEAN : PutPrice(a, keep)

SpecPricing == Init /\ [][NextPricing]_vars

\* ------------------------------------------------------------ properties
\* The calls the caller of the library holds a record of.
Calls == {c \in {observed, last} : c # None}

Raised(c) == c.outcome.kind = "raise"

\* Claim C1: with S > 0 and K > 0, an input with T = 0 or sigma = 0 makes
\* each price function raise (ZeroDivisionError, or ValueError when the other
\* of the two is negative); it never returns a value.
C1_DegenerateInputRaises ==
  \A c \in Calls :
    (c.args[1] > 0 /\ c.args[2] > 0 /\ (c.args[3] = 0 \/ c.args[5] = 0))
      => /\ Raised(c)
         /\ c.outcome.exc \in {"ZeroDivisionError", "ValueError"}
         /\ (c.args[3] >= 0 => c.outcome = ZeroDivisionError)

\* The call function was given T = 0 and the put function sigma = 0, both
\* with positive prices, and both raised.
C1_Witness ==
  /\ observed # None /\ last # None
  /\ observed.fn = "call" /\ last.fn = "put"
  /\ observed.args[1] > 0 /\ observed.args[2] > 0
  /\ observed.args[3] = 0 /\ observed.args[5] > 0
  /\ last.args[1] > 0 /\ last.args[2] > 0
  /\ last.args[3] > 0 /\ last.args[5] = 0
  /\ observed.outcome = ZeroDivisionError /\ last.outcome = ZeroDivisionError

\* Claim C2: every input with S <= 0 or K <= 0 makes each price function
\* raise and return no price.
C2_NonPositivePriceRaises ==
  \A c \in Calls : (c.args[1] <= 0 \/ c.args[2] <= 0) => Raised(c)

\* Claim C3: every input with T <= 0 or sigma <= 0 makes each price function
\* raise and return no value, also when S > 0 and K > 0.
C3_NonPositiveMaturityOrVolatilityRaises ==
  \A c \in Calls : (c.args[3] <= 0 \/ c.args[5] <= 0) => Raised(c)

\* The parameters of an argument tuple that violate their constraint.
Violated(a) ==
  {n \in {"S", "K", "T", "sigma"} :
     \/ n = "S" /\ a[1] <= 0
     \/ n = "K" /\ a[2] <= 0
     \/ n = "T" /\ a[3] <= 0
     \/ n = "sigma" /\ a[5] <= 0}

\* Claim C4: the error of a failed call identifies the parameter that
\* violated its constraint: two failed calls whose single violating
\* parameters differ raise distinguishable errors.
C4_ErrorIdentifiesParameter ==
  \A c, d \in Calls :
    ( /\ Raised(c) /\ Raised(d)
      /\ Cardinality(Violated(c.args)) = 1
      /\ Cardinality(Violated(d.args)) = 1
      /\ Violated(c.args) # Violated(d.args) )
      => c.outcome # d.outcome

C10_SameFailureDomain ==
  \A c, d \in Calls :
    (c.args = d.args /\ c.fn # d.fn)
      => /\ Raised(c) <=> Raised(d)
         /\ Raised(c) => c.outcome = d.outcome

\* Both functions were called on the same arguments and both raised.
C10_Witness ==
  /\ observed # None /\ last # None
  /\ observed.fn = "call" /\ last.fn = "put"
  /\ observed.args = last.args
  /\ Raised(observed) /\ Raised(last)

\* -------------------------------------------------- properties of the CLI
IsPrompt(s) == \E i \in 1..Len(Prompts) : Prompts[i] = s

\* The prompts issued so far, in order.
Issued == SelectSeq(stdout, IsPrompt)

\* The lines of standard output that carry a price.
IsPriceLine(s) ==
  ~IsPrompt(s) /\ s \notin {Welcome, "\n" \o Separator, Separator \o "\n"}

PriceLines == SelectSeq(stdout, IsPriceLine)

\* The run has reached the pricing step (whether or not it succeeded).
PricingReached ==
  \/ pc \in {"call", "put", "display"}
  \/ call_option_price # None
  \/ error \in {ZeroDivisionError, MathDomainError}

C7_PromptOrder ==
  /\ Len(Issued) <= Len(Prompts)
  /\ Issued = SubSeq(Prompts, 1, Len(Issued))
  /\ Len(Issued) <= Len(inputs) + 1
  /\ \A i \in 1..Len(inputs) : float(stdin[i]) = Return(inputs[i])
  /\ PricingReached => Len(inputs) = 5 /\ Len(Issued) = 5

\* The fifth prompt has been issued and its answer parsed.
C7_Witness ==
  /\ Len(Issued) = 5
  /\ Len(inputs) = 5
  /\ pc = "call"

C9_NoPartialResult ==
  /\ \/ PriceLines = <<>>
     \/ /\ pc = "exited" /\ error = None
        /\ \E i \in 1..(Len(stdout) - 1) :
             /\ stdout[i] = CallLine(call_option_price.value)
             /\ stdout[i + 1] = PutLine(put_option_price.value)
        /\ Len(PriceLines) = 2
  /\ error \in {ZeroDivisionError, MathDomainError}
       => /\ pc = "exited"
          /\ exit_code = 1
          /\ PriceLines = <<>>
          /\ ~ENABLED Next

\* All five values parsed, the computation raised, and the run has ended.
C9_Witness ==
  /\ Len(inputs) = 5
  /\ error = ZeroDivisionError
  /\ pc = "exited"
  /\ PriceLines = <<>>
====
